---- MODULE Spec2Model ----
(***************************************************************************)
(* instanceskv: a Cloudflare Worker that stores validated JSON documents   *)
(* in a KV namespace under the SHA-1 of their serialization and serves     *)
(* them back through the edge cache (src/src/index.ts, src/src/schema.ts). *)
(*                                                                         *)
(* Modelling conventions                                                   *)
(*  - A JS string is a Text: a sequence of runs [c, n, u, b], the chunk c  *)
(*    repeated n times, one repetition being u UTF-16 code units and b     *)
(*    UTF-8 bytes.  Two Texts built by the operators below are equal       *)
(*    exactly when the strings are.                                        *)
(*  - A JSON value is a tagged record [t, v]; an object keeps its members  *)
(*    in insertion order, as a JS object does for non-numeric keys.        *)
(*  - INSTANCES_KV and caches.default are the platform's: they are         *)
(*    modelled by the interface the code uses (get/put, match/put), each   *)
(*    call taking effect atomically at some point while it is awaited.     *)
(*  - An action is one awaited call completing and the handler running on  *)
(*    to its next await or to its return.                                  *)
(***************************************************************************)
EXTENDS Integers, Sequences, FiniteSets, Bags, TLC

(***************************************************************************)
(* State                                                                   *)
(***************************************************************************)
VARIABLES
    kv,       \* INSTANCES_KV: key -> value, for the keys that are present
    cache,    \* caches.default: URL -> response, for the URLs that are cached
    reqs,     \* bag of the requests being handled, each suspended at an await
    tasks,    \* bag of the cache.put calls given to ctx.waitUntil, not yet done
    last,     \* the request that returned last, with its response
    started,  \* how many requests have arrived
    issued,   \* history: [id, text, body] of every 200 putJson has returned
    writes,   \* history: key -> number of INSTANCES_KV.put calls completed
    faults    \* history: [op, key] of every platform call that has failed

vars == << kv, cache, reqs, tasks, last, started, issued, writes, faults >>

(***************************************************************************)
(* Texts (JS strings)                                                      *)
(***************************************************************************)
Lit(s) == [c |-> s, n |-> 1, u |-> Len(s), b |-> Len(s)]

Txt(s) == IF s = "" THEN << >> ELSE << Lit(s) >>

\* ch repeated n times, ch one ASCII character
Ascii(ch, n) == [c |-> ch, n |-> n, u |-> 1, b |-> 1]

\* U+00E9 repeated n times: one UTF-16 code unit, two UTF-8 bytes each
EAcute(n) == [c |-> "U+00E9", n |-> n, u |-> 1, b |-> 2]

\* a + b: adjacent literal chunks are kept as one chunk, so that a string has
\* one representation
Cat(a, b) ==
    IF a = << >> THEN b
    ELSE IF b = << >> THEN a
    ELSE LET l == a[Len(a)]
             r == b[1]
         IN IF l.n = 1 /\ r.n = 1 /\ l.u = l.b /\ r.u = r.b
            THEN SubSeq(a, 1, Len(a) - 1)
                 \o << Lit(l.c \o r.c) >>
                 \o SubSeq(b, 2, Len(b))
            ELSE a \o b

RECURSIVE SumRuns(_, _, _)
SumRuns(text, i, bytes) ==
    IF i > Len(text) THEN 0
    ELSE text[i].n * (IF bytes THEN text[i].b ELSE text[i].u)
         + SumRuns(text, i + 1, bytes)

\* String.prototype.length: UTF-16 code units
Length(text) == SumRuns(text, 1, FALSE)

\* new TextEncoder().encode(text).length, the size of the value KV stores
Utf8Length(text) == SumRuns(text, 1, TRUE)

RECURSIVE Show(_)
\* The string a Text stands for, a run of n > 1 written <c*n>
Show(text) ==
    IF text = << >> THEN ""
    ELSE LET r == Head(text)
         IN (IF r.n = 1 THEN r.c ELSE "<" \o r.c \o "*" \o ToString(r.n) \o ">")
            \o Show(Tail(text))

(***************************************************************************)
(* JSON values                                                             *)
(***************************************************************************)
JNull    == [t |-> "null", v |-> << >>]
JNum(n)  == [t |-> "number", v |-> n]
JBool(b) == [t |-> "boolean", v |-> b]
JStr(s)  == [t |-> "string", v |-> Txt(s)]
JText(x) == [t |-> "string", v |-> x]
JArr(xs) == [t |-> "array", v |-> xs]
JObj(ms) == [t |-> "object", v |-> ms]
Mem(k, v) == [k |-> k, v |-> v]

\* key in input
HasKey(obj, k) ==
    /\ obj.t = "object"
    /\ \E i \in 1..Len(obj.v) : obj.v[i].k = k

\* input[key], for a key that is in input
GetKey(obj, k) ==
    obj.v[CHOOSE i \in 1..Len(obj.v) :
              /\ obj.v[i].k = k
              /\ \A j \in (i + 1)..Len(obj.v) : obj.v[j].k # k].v

RECURSIVE Stringify(_)
RECURSIVE StringifyItems(_, _)
RECURSIVE StringifyMembers(_, _)
StringifyItems(xs, i) ==
    IF i > Len(xs) THEN << >>
    ELSE Cat(Txt(IF i > 1 THEN "," ELSE ""),
             Cat(Stringify(xs[i]), StringifyItems(xs, i + 1)))

StringifyMembers(ms, i) ==
    IF i > Len(ms) THEN << >>
    ELSE Cat(Txt((IF i > 1 THEN "," ELSE "") \o "\"" \o ms[i].k \o "\":"),
             Cat(Stringify(ms[i].v), StringifyMembers(ms, i + 1)))

\* JSON.stringify(value)
Stringify(j) ==
    CASE j.t = "null"    -> Txt("null")
      [] j.t = "number"  -> Txt(ToString(j.v))
      [] j.t = "boolean" -> Txt(IF j.v THEN "true" ELSE "false")
      [] j.t = "string"  -> Cat(Txt("\""), Cat(j.v, Txt("\"")))
      [] j.t = "array"   -> Cat(Txt("["), Cat(StringifyItems(j.v, 1), Txt("]")))
      [] j.t = "object"  -> Cat(Txt("{"), Cat(StringifyMembers(j.v, 1), Txt("}")))

(***************************************************************************)
(* The schema (src/src/schema.ts) and valibot's safeParse                  *)
(***************************************************************************)
SNumberValue(req, msg) == [kind |-> "number", value |-> req, message |-> msg]
SString  == [kind |-> "string"]
SBoolean == [kind |-> "boolean"]
SAny     == [kind |-> "any"]
SArray(item)     == [kind |-> "array", item |-> item]
SObject(entries) == [kind |-> "object", entries |-> entries]
Entry(k, s) == [k |-> k, s |-> s]

schema ==
    SObject(<< Entry("version", SNumberValue(1, "Version must be 1")),
               Entry("filter", SString),
               Entry("columns",
                     SArray(SObject(<< Entry("id", SString),
                                       Entry("value", SAny) >>))),
               Entry("pricingUnit", SString),
               Entry("costDuration", SString),
               Entry("region", SString),
               Entry("reservedTerm", SString),
               Entry("compareOn", SBoolean),
               Entry("selected", SArray(SString)),
               Entry("visibleColumns", SArray(SString)) >>)

\* How valibot's messages print the received input
Received(j) ==
    CASE j.t = "null"    -> "null"
      [] j.t = "number"  -> ToString(j.v)
      [] j.t = "boolean" -> (IF j.v THEN "true" ELSE "false")
      [] j.t = "string"  -> "\"" \o Show(j.v) \o "\""
      [] j.t = "array"   -> "Array"
      [] j.t = "object"  -> "Object"

InvalidType(expected, j) ==
    "Invalid type: Expected " \o expected \o " but received " \o Received(j)

RECURSIVE SchemaRun(_, _)
RECURSIVE RunEntries(_, _, _)
RECURSIVE RunItems(_, _, _)
\* object(): the entries are visited in schema order, a key that is not in
\* the input is an issue, keys the schema does not name are dropped.
RunEntries(entries, input, i) ==
    IF i > Len(entries) THEN [issues |-> << >>, members |-> << >>]
    ELSE LET key  == entries[i].k
             rest == RunEntries(entries, input, i + 1)
         IN IF HasKey(input, key)
            THEN LET r == SchemaRun(entries[i].s, GetKey(input, key))
                 IN [issues  |-> r.issues \o rest.issues,
                     members |-> << Mem(key, r.output) >> \o rest.members]
            ELSE [issues  |-> << "Invalid key: Expected \"" \o key
                                 \o "\" but received undefined" >> \o rest.issues,
                  members |-> rest.members]

RunItems(item, xs, i) ==
    IF i > Len(xs) THEN [issues |-> << >>, items |-> << >>]
    ELSE LET r    == SchemaRun(item, xs[i])
             rest == RunItems(item, xs, i + 1)
         IN [issues |-> r.issues \o rest.issues,
             items  |-> << r.output >> \o rest.items]

SchemaRun(s, input) ==
    CASE s.kind = "any" -> [issues |-> << >>, output |-> input]
      [] s.kind = "string" ->
            [issues |-> IF input.t = "string" THEN << >>
                        ELSE << InvalidType("string", input) >>,
             output |-> input]
      [] s.kind = "boolean" ->
            [issues |-> IF input.t = "boolean" THEN << >>
                        ELSE << InvalidType("boolean", input) >>,
             output |-> input]
      [] s.kind = "number" ->
            [issues |-> IF input.t # "number"
                        THEN << InvalidType("number", input) >>
                        ELSE IF input.v # s.value THEN << s.message >>
                        ELSE << >>,
             output |-> input]
      [] s.kind = "array" ->
            IF input.t # "array"
            THEN [issues |-> << InvalidType("Array", input) >>, output |-> input]
            ELSE LET r == RunItems(s.item, input.v, 1)
                 IN [issues |-> r.issues, output |-> JArr(r.items)]
      [] s.kind = "object" ->
            IF input.t \notin {"object", "array"}
            THEN [issues |-> << InvalidType("Object", input) >>, output |-> input]
            ELSE LET r == RunEntries(s.entries, input, 1)
                 IN [issues |-> r.issues, output |-> JObj(r.members)]

\* safeParse(schema, j)
safeParse(s, j) ==
    LET r == SchemaRun(s, j)
    IN [success |-> r.issues = << >>, output |-> r.output, issues |-> r.issues]

RECURSIVE Join(_, _)
\* issues.map((i) => i.message).join(", ")
Join(msgs, sep) ==
    IF msgs = << >> THEN ""
    ELSE IF Len(msgs) = 1 THEN msgs[1]
    ELSE msgs[1] \o sep \o Join(Tail(msgs), sep)

(***************************************************************************)
(* Request bodies.  A body that is JSON text is its value plus ws          *)
(* characters of insignificant whitespace; request.json() keeps the value. *)
(***************************************************************************)
JsonBody(ws, value) == [syntax |-> "json", ws |-> ws, value |-> value]
GarbageBody == [syntax |-> "garbage", ws |-> 0, value |-> JNull]

\* The size limit on the serialized instance
MaxSerializedLength == 15 * 1024

Settings ==
    << Mem("pricingUnit", JStr("usd")), Mem("costDuration", JStr("hr")),
       Mem("region", JStr("us-east-1")), Mem("reservedTerm", JStr("1yr")),
       Mem("compareOn", JBool(FALSE)), Mem("selected", JArr(<< >>)),
       Mem("visibleColumns", JArr(<< >>)) >>

Doc(version, filter, columns) ==
    JObj(<< Mem("version", version), Mem("filter", filter),
            Mem("columns", JArr(columns)) >> \o Settings)

Column(id, value) == JObj(<< Mem("id", JStr(id)), Mem("value", value) >>)

\* Length of the filter that makes the serialization exactly the limit
PadToLimit ==
    MaxSerializedLength - Length(Stringify(Doc(JNum(1), JStr(""), << >>)))

Bodies ==
    << \* 1: the document in schema order, no whitespace
       JsonBody(0, Doc(JNum(1), JStr(""), << >>)),
       \* 2: the same document, keys in another order, indented
       JsonBody(40, JObj(Settings \o << Mem("columns", JArr(<< >>)),
                                        Mem("filter", JStr("")),
                                        Mem("version", JNum(1)) >>)),
       \* 3, 4: one column whose value is an object, its keys in either order
       JsonBody(0, Doc(JNum(1), JStr(""),
                       << Column("c", JObj(<< Mem("a", JNum(1)),
                                              Mem("b", JNum(2)) >>)) >>)),
       JsonBody(0, Doc(JNum(1), JStr(""),
                       << Column("c", JObj(<< Mem("b", JNum(2)),
                                              Mem("a", JNum(1)) >>)) >>)),
       \* 5: not JSON
       GarbageBody,
       \* 6: version 2
       JsonBody(0, Doc(JNum(2), JStr(""), << >>)),
       \* 7: a filter that is a number
       JsonBody(0, Doc(JNum(1), JNum(5), << >>)),
       \* 8, 9: serialization of exactly the limit, and one over
       JsonBody(0, Doc(JNum(1), JText(<< Ascii("a", PadToLimit) >>), << >>)),
       JsonBody(0, Doc(JNum(1), JText(<< Ascii("a", PadToLimit + 1) >>), << >>)),
       \* 10: exactly the limit in UTF-16 code units, of two-byte characters
       JsonBody(0, Doc(JNum(1), JText(<< EAcute(PadToLimit) >>), << >>)),
       \* 11: version 2 and over the limit
       JsonBody(0, Doc(JNum(2), JText(<< Ascii("a", PadToLimit + 1) >>), << >>)),
       \* 12: document 1 with an unknown key and 16000 characters of whitespace
       JsonBody(16000, JObj(<< Mem("note", JStr("x")) >>
                            \o Doc(JNum(1), JStr(""), << >>).v)) >>

\* The length of the request body as sent
RawLength(body) == body.ws + Length(Stringify(body.value))

\* await request.json()
RequestJson(body) ==
    IF body.syntax = "json" THEN [ok |-> TRUE, value |-> body.value]
    ELSE [ok |-> FALSE, value |-> JNull]

(***************************************************************************)
(* SHA-1, lowercase hex.  The digests of the serializations the bodies     *)
(* above lead to; any other text gets a digest named after the text.       *)
(***************************************************************************)
Sha1Table ==
    { [text |-> "{\"version\":1,\"filter\":\"\",\"columns\":[],\"pricingUnit\":\"usd\",\"costDuration\":\"hr\",\"region\":\"us-east-1\",\"reservedTerm\":\"1yr\",\"compareOn\":false,\"selected\":[],\"visibleColumns\":[]}",
       hex  |-> "f53d50242448aacd32631d758cbd1a8a1944a181"],
      [text |-> "{\"version\":1,\"filter\":\"\",\"columns\":[{\"id\":\"c\",\"value\":{\"a\":1,\"b\":2}}],\"pricingUnit\":\"usd\",\"costDuration\":\"hr\",\"region\":\"us-east-1\",\"reservedTerm\":\"1yr\",\"compareOn\":false,\"selected\":[],\"visibleColumns\":[]}",
       hex  |-> "6fec242d8f80f7040a32a1e02b0959bdf79b8446"],
      [text |-> "{\"version\":1,\"filter\":\"\",\"columns\":[{\"id\":\"c\",\"value\":{\"b\":2,\"a\":1}}],\"pricingUnit\":\"usd\",\"costDuration\":\"hr\",\"region\":\"us-east-1\",\"reservedTerm\":\"1yr\",\"compareOn\":false,\"selected\":[],\"visibleColumns\":[]}",
       hex  |-> "6e48f69b928336ca0a0d936da2935d978fd50746"],
      [text |-> "{\"version\":1,\"filter\":\"<a*15188>\",\"columns\":[],\"pricingUnit\":\"usd\",\"costDuration\":\"hr\",\"region\":\"us-east-1\",\"reservedTerm\":\"1yr\",\"compareOn\":false,\"selected\":[],\"visibleColumns\":[]}",
       hex  |-> "fe5c32ab5763984dbf750eb17e8176481325d2a8"],
      [text |-> "{\"version\":1,\"filter\":\"<U+00E9*15188>\",\"columns\":[],\"pricingUnit\":\"usd\",\"costDuration\":\"hr\",\"region\":\"us-east-1\",\"reservedTerm\":\"1yr\",\"compareOn\":false,\"selected\":[],\"visibleColumns\":[]}",
       hex  |-> "b99b4632e16bda5ca4b2242f7a01cb6771fc9fd2"] }

\* Mutant: crypto.randomUUID() in place of the digest, one per request
RandomUuid(serialized) == "uuid-" \o ToString(started + 1)

\* Mutant: the digest of an empty buffer, whatever the serialization
Sha1HexOfNothing(serialized) == "da39a3ee5e6b4b0d3255bfef95601890afd80709"

\* crypto.subtle.digest("SHA-1", encode(serialized)), each byte as two hex digits
Sha1Hex(serialized) ==
    LET shown == Show(serialized)
    IN IF \E e \in Sha1Table : e.text = shown
       THEN (CHOOSE e \in Sha1Table : e.text = shown).hex
       ELSE "sha1(" \o shown \o ")"

\* A well-formed identifier that is the digest of none of the bodies
ZeroId == "0000000000000000000000000000000000000000"

(***************************************************************************)
(* URLs and responses.  A pathname is << "/" >> or << "/", rest >>.        *)
(***************************************************************************)
Root == << "/" >>

\* `/${idString}`
PathOf(idString) == << "/", idString >>

\* url.pathname.substring(1)
Substring1(pathname) == IF Len(pathname) > 1 THEN pathname[2] ELSE ""

Url(pathname, search) == [pathname |-> pathname, search |-> search]

\* Mutant: the KV is read by the whole pathname, its leading slash included
KvKeyWithSlash(url) == "/" \o Substring1(url.pathname)

\* The key getJson reads the KV by (line 34)
KvKey(url) == Substring1(url.pathname)

textResp(message, status) ==
    [status  |-> status,
     body    |-> Txt(message),
     headers |-> { << "Access-Control-Allow-Origin", "*" >> }]

notAllowedResp(allowedMethods) ==
    [status  |-> 405,
     body    |-> Txt("Method not allowed. Allowed methods: " \o allowedMethods),
     headers |-> { << "Access-Control-Allow-Origin", "*" >>,
                   << "Allow", allowedMethods >> }]

\* new Response(instance, { headers }) in getJson
InstanceResp(instance) ==
    [status  |-> 200,
     body    |-> instance,
     headers |-> { << "Content-Type", "application/json" >>,
                   << "Access-Control-Allow-Origin", "*" >>,
                   << "Access-Control-Allow-Methods", "GET" >>,
                   << "Access-Control-Allow-Headers", "Content-Type" >>,
                   << "Cache-Control", "public, max-age=604800" >> }]

NoResp == [status |-> 0, body |-> << >>, headers |-> {}]

\* fetch has no try/catch around its awaits (lines 106-130): a platform call
\* that rejects rejects fetch's promise, which the runtime answers with its
\* error page
UncaughtException ==
    [status |-> 500, body |-> Txt("Worker threw exception"), headers |-> {}]

\* What the history keeps of a platform call that failed
Fault(op, key) == [op |-> op, key |-> key]

(***************************************************************************)
(* fetch's routing and putJson up to the cache probe                       *)
(***************************************************************************)
\* Mutant: allowedMethods is never set to POST
RouteAllowGet(method, pathname) ==
    IF pathname = Root
    THEN IF method = "POST"
         THEN [handler |-> "putJson", allowedMethods |-> "GET"]
         ELSE [handler |-> "notAllowed", allowedMethods |-> "GET"]
    ELSE IF method # "GET"
         THEN [handler |-> "notAllowed", allowedMethods |-> "GET"]
         ELSE [handler |-> "getJson", allowedMethods |-> "GET"]

\* fetch, lines 113-129: the handler a request goes to, and the Allow header
Route(method, pathname) ==
    IF pathname = Root
    THEN IF method = "POST"
         THEN [handler |-> "putJson", allowedMethods |-> "POST"]
         ELSE [handler |-> "notAllowed", allowedMethods |-> "POST"]
    ELSE IF method # "GET"
         THEN [handler |-> "notAllowed", allowedMethods |-> "GET"]
         ELSE [handler |-> "getJson", allowedMethods |-> "GET"]

\* serialized.length > 15 * 1024
TooLarge(serialized) == Length(serialized) > MaxSerializedLength

\* url.pathname = `/${idString}`: the search of the request's URL stays
CacheUrl(url, idString) == [url EXCEPT !.pathname = PathOf(idString)]

\* Mutant: the size limit is applied to the body as sent, before validation
PrepareRawSizeFirst(body) ==
    LET j          == RequestJson(body)
        parsed     == safeParse(schema, j.value)
        serialized == Stringify(parsed.output)
        Rejected(resp) == [accepted |-> FALSE, resp |-> resp,
                           serialized |-> << >>, idString |-> ""]
    IN IF ~j.ok THEN Rejected(textResp("Invalid JSON", 400))
       ELSE IF RawLength(body) > MaxSerializedLength
            THEN Rejected(textResp("Instance too large", 413))
       ELSE IF ~parsed.success
            THEN Rejected(textResp(Join(parsed.issues, ", "), 400))
       ELSE [accepted |-> TRUE, resp |-> NoResp,
             serialized |-> serialized, idString |-> Sha1Hex(serialized)]

\* putJson, lines 66-91: the rejection, or the serialization and its digest
Prepare(body) ==
    LET j          == RequestJson(body)
        parsed     == safeParse(schema, j.value)
        serialized == Stringify(parsed.output)
        Rejected(resp) == [accepted |-> FALSE, resp |-> resp,
                           serialized |-> << >>, idString |-> ""]
    IN IF ~j.ok THEN Rejected(textResp("Invalid JSON", 400))
       ELSE IF ~parsed.success
            THEN Rejected(textResp(Join(parsed.issues, ", "), 400))
       ELSE IF TooLarge(serialized)
            THEN Rejected(textResp("Instance too large", 413))
       ELSE [accepted |-> TRUE, resp |-> NoResp,
             serialized |-> serialized, idString |-> Sha1Hex(serialized)]

\* How many requests arrive in all
MaxRequests == 3

Methods  == {"GET", "POST", "PUT"}
Searches == {"", "?x=1"}

\* putJson's lines 66-91 on each of the bodies
Prepared == [b \in 1..Len(Bodies) |-> Prepare(Bodies[b])]

\* The bodies that concurrent clients post: the document in two layouts, a
\* second document, and a rejected one
ClientBodies == {1, 2, 3, 6}

\* The identifiers clients ask for: the digests of their bodies, and ZeroId
Identifiers ==
    { Prepared[b].idString : b \in { c \in ClientBodies : Prepared[c].accepted } }
    \cup { ZeroId }

Pathnames == { Root } \cup { PathOf(id) : id \in Identifiers }

\* INSTANCES_KV.get(key): null is the empty text, which `!instance` treats alike
KvGet(key) == IF key \in DOMAIN kv THEN kv[key] ELSE << >>

\* caches.default.match(url) finds a response
CacheHas(url) == url \in DOMAIN cache

Arrival(method, pathname, search, b) ==
    [method |-> method, pathname |-> pathname,
     search |-> search, body |-> b, pc |-> "start",
     url |-> Url(pathname, search), serialized |-> << >>, idString |-> "",
     resp |-> NoResp, ops |-> << >>, promised |-> {}, prior |-> FALSE,
     retry |-> FALSE]

\* What the history keeps of a 200 that putJson returns to request r
Issue(r) == [id |-> r.idString, text |-> r.serialized, body |-> r.body]

Returned(r, resp) == [r EXCEPT !.pc = "done", !.resp = resp]

Init ==
    /\ kv = [k \in {} |-> << >>]
    /\ cache = [u \in {} |-> NoResp]
    /\ reqs = EmptyBag
    /\ tasks = EmptyBag
    /\ last = [Arrival("", << >>, "", 0) EXCEPT !.pc = "none"]
    /\ started = 0
    /\ issued = {}
    /\ writes = [k \in {} |-> 0]
    /\ faults = {}

(***************************************************************************)
(* fetch                                                                   *)
(***************************************************************************)
\* fetch, lines 122-128: the wrong method for the path
FetchNotAllowed(method, pathname, search) ==
    LET route == Route(method, pathname)
    IN /\ started < MaxRequests
       /\ route.handler = "notAllowed"
       /\ last' = Returned(Arrival(method, pathname, search, 0),
                           notAllowedResp(route.allowedMethods))
       /\ started' = started + 1
       /\ UNCHANGED << kv, cache, reqs, tasks, issued, writes, faults >>

(***************************************************************************)
(* putJson                                                                 *)
(***************************************************************************)
\* Mutant: the size is checked after the instance is put in the KV
PutJsonRejectAfterPut(method, pathname, search, b) ==
    LET p          == Prepared[b]
        j          == RequestJson(Bodies[b])
        parsed     == safeParse(schema, j.value)
        serialized == Stringify(parsed.output)
        idString   == Sha1Hex(serialized)
    IN /\ started < MaxRequests
       /\ Route(method, pathname).handler = "putJson"
       /\ ~p.accepted
       /\ kv' = IF j.ok /\ parsed.success
                THEN [k \in DOMAIN kv \cup {idString} |->
                         IF k = idString THEN serialized ELSE kv[k]]
                ELSE kv
       /\ last' = Returned(Arrival(method, pathname, search, b), p.resp)
       /\ started' = started + 1
       /\ UNCHANGED << cache, reqs, tasks, issued, writes, faults >>

\* lines 66-82: the body is rejected
PutJsonReject(method, pathname, search, b) ==
    LET p == Prepared[b]
    IN /\ started < MaxRequests
       /\ Route(method, pathname).handler = "putJson"
       /\ ~p.accepted
       /\ last' = Returned(Arrival(method, pathname, search, b), p.resp)
       /\ started' = started + 1
       /\ UNCHANGED << kv, cache, reqs, tasks, issued, writes, faults >>

\* lines 66-95: the body is accepted and caches.default.match(url) is awaited
PutJsonAccept(method, pathname, search, b) ==
    LET p == Prepared[b]
    IN /\ started < MaxRequests
       /\ Route(method, pathname).handler = "putJson"
       /\ p.accepted
       /\ reqs' = reqs (+) SetToBag(
             { [Arrival(method, pathname, search, b) EXCEPT
                  !.pc = "match",
                  !.url = CacheUrl(Url(pathname, search), p.idString),
                  !.serialized = p.serialized,
                  !.idString = p.idString,
                  !.prior = \E i \in issued : i.text = p.serialized,
                  !.retry = Fault("kv.put", p.idString) \in faults] })
       /\ started' = started + 1
       /\ UNCHANGED << kv, cache, tasks, last, issued, writes, faults >>

\* Mutant: the probe hits and the cached response is returned, as in getJson
PutJsonCacheHitReturnsIt(r) ==
    /\ r.method = "POST" /\ r.pc = "match"
    /\ CacheHas(r.url)
    /\ reqs' = reqs (-) SetToBag({r})
    /\ last' = Returned([r EXCEPT !.ops = Append(@, "cache.match")],
                        cache[r.url])
    /\ issued' = issued \cup { Issue(r) }
    /\ UNCHANGED << kv, cache, tasks, started, writes, faults >>

\* lines 95-96: the probe hits, the identifier is returned
PutJsonCacheHit(r) ==
    /\ r.method = "POST" /\ r.pc = "match"
    /\ CacheHas(r.url)
    /\ reqs' = reqs (-) SetToBag({r})
    /\ last' = Returned([r EXCEPT !.ops = Append(@, "cache.match")],
                        textResp(r.idString, 200))
    /\ issued' = issued \cup { Issue(r) }
    /\ UNCHANGED << kv, cache, tasks, started, writes, faults >>

\* Mutant: the cache is warmed before the instance is put in the KV
PutJsonCacheMissWarmsFirst(r) ==
    /\ r.method = "POST" /\ r.pc = "match"
    /\ ~CacheHas(r.url)
    /\ tasks' = tasks (+) SetToBag(
          { [url |-> r.url, resp |-> InstanceResp(r.serialized)] })
    /\ reqs' = (reqs (-) SetToBag({r})) (+) SetToBag(
          { [r EXCEPT !.pc = "kvput", !.ops = Append(@, "cache.match")] })
    /\ UNCHANGED << kv, cache, last, started, issued, writes, faults >>

\* lines 95-99: the probe misses, INSTANCES_KV.put is awaited
PutJsonCacheMiss(r) ==
    /\ r.method = "POST" /\ r.pc = "match"
    /\ ~CacheHas(r.url)
    /\ reqs' = (reqs (-) SetToBag({r})) (+) SetToBag(
          { [r EXCEPT !.pc = "kvput", !.ops = Append(@, "cache.match")] })
    /\ UNCHANGED << kv, cache, tasks, last, started, issued, writes, faults >>

\* Mutant: putJson warms the cache with a response of its own making, the
\* serialization as JSON with no Cache-Control
PutJsonKvPutWarmsBare(r) ==
    /\ r.method = "POST" /\ r.pc = "kvput"
    /\ kv' = [k \in DOMAIN kv \cup {r.idString} |->
                 IF k = r.idString THEN r.serialized ELSE kv[k]]
    /\ writes' = [k \in DOMAIN writes \cup {r.idString} |->
                     IF k = r.idString THEN (IF k \in DOMAIN writes
                                             THEN writes[k] + 1 ELSE 1)
                     ELSE writes[k]]
    /\ tasks' = tasks (+) SetToBag(
          { [url |-> r.url,
             resp |-> [status  |-> 200,
                       body    |-> r.serialized,
                       headers |-> { << "Content-Type", "application/json" >>,
                                     << "Access-Control-Allow-Origin", "*" >> }]] })
    /\ reqs' = reqs (-) SetToBag({r})
    /\ last' = Returned([r EXCEPT !.ops = @ \o << "kv.put", "cache.put" >>],
                        textResp(r.idString, 200))
    /\ issued' = issued \cup { Issue(r) }
    /\ UNCHANGED << cache, started, faults >>

\* Mutant: getJson(url, serialized) is awaited, not given to ctx.waitUntil:
\* the identifier is returned when the cache holds the response
PutJsonKvPutAwaitsWarm(r) ==
    /\ r.method = "POST" /\ r.pc = "kvput"
    /\ kv' = [k \in DOMAIN kv \cup {r.idString} |->
                 IF k = r.idString THEN r.serialized ELSE kv[k]]
    /\ writes' = [k \in DOMAIN writes \cup {r.idString} |->
                     IF k = r.idString THEN (IF k \in DOMAIN writes
                                             THEN writes[k] + 1 ELSE 1)
                     ELSE writes[k]]
    /\ cache' = [u \in DOMAIN cache \cup {r.url} |->
                    IF u = r.url THEN InstanceResp(r.serialized) ELSE cache[u]]
    /\ reqs' = reqs (-) SetToBag({r})
    /\ last' = Returned([r EXCEPT !.ops = @ \o << "kv.put", "cache.put" >>],
                        textResp(r.idString, 200))
    /\ issued' = issued \cup { Issue(r) }
    /\ UNCHANGED << tasks, started, faults >>

\* Mutant: INSTANCES_KV.put is not awaited; the identifier is returned and
\* the cache warmed while the put has had no effect yet
PutJsonKvPutNotAwaited(r) ==
    /\ r.method = "POST" /\ r.pc = "kvput"
    /\ tasks' = tasks (+) SetToBag(
          { [url |-> r.url, resp |-> InstanceResp(r.serialized)] })
    /\ reqs' = reqs (-) SetToBag({r})
    /\ last' = Returned([r EXCEPT !.ops = @ \o << "kv.put", "cache.put" >>],
                        textResp(r.idString, 200))
    /\ issued' = issued \cup { Issue(r) }
    /\ UNCHANGED << kv, cache, started, writes, faults >>

\* lines 99-103: the put is done; getJson(url, serialized) builds the response
\* (lines 27-30, 40-48) and calls caches.default.put (line 57) inside
\* ctx.waitUntil; the identifier is returned
PutJsonKvPut(r) ==
    /\ r.method = "POST" /\ r.pc = "kvput"
    /\ kv' = [k \in DOMAIN kv \cup {r.idString} |->
                 IF k = r.idString THEN r.serialized ELSE kv[k]]
    /\ writes' = [k \in DOMAIN writes \cup {r.idString} |->
                     IF k = r.idString THEN (IF k \in DOMAIN writes
                                             THEN writes[k] + 1 ELSE 1)
                     ELSE writes[k]]
    /\ tasks' = tasks (+) SetToBag(
          { [url |-> r.url, resp |-> InstanceResp(r.serialized)] })
    /\ reqs' = reqs (-) SetToBag({r})
    /\ last' = Returned([r EXCEPT !.ops = @ \o << "kv.put", "cache.put" >>],
                        textResp(r.idString, 200))
    /\ issued' = issued \cup { Issue(r) }
    /\ UNCHANGED << cache, started, faults >>

(***************************************************************************)
(* getJson, as the handler of GET                                          *)
(***************************************************************************)
\* fetch line 129, getJson lines 22-23: caches.default.match(url) is awaited
GetJsonStart(method, pathname, search) ==
    /\ started < MaxRequests
    /\ Route(method, pathname).handler = "getJson"
    /\ reqs' = reqs (+) SetToBag(
          { [Arrival(method, pathname, search, 0) EXCEPT
               !.pc = "match",
               !.promised = { i.text : i \in { q \in issued :
                                  q.id = Substring1(pathname) } }] })
    /\ started' = started + 1
    /\ UNCHANGED << kv, cache, tasks, last, issued, writes, faults >>

\* Mutant: a cached response is not trusted, the KV is read all the same
GetJsonCacheHitRevalidates(r) ==
    /\ r.method = "GET" /\ r.pc = "match"
    /\ CacheHas(r.url)
    /\ reqs' = (reqs (-) SetToBag({r})) (+) SetToBag(
          { [r EXCEPT !.pc = "kvget", !.ops = Append(@, "cache.match")] })
    /\ UNCHANGED << kv, cache, tasks, last, started, issued, writes, faults >>

\* lines 23-24: the probe hits, the cached response is returned
GetJsonCacheHit(r) ==
    /\ r.method = "GET" /\ r.pc = "match"
    /\ CacheHas(r.url)
    /\ reqs' = reqs (-) SetToBag({r})
    /\ last' = Returned([r EXCEPT !.ops = Append(@, "cache.match")],
                        cache[r.url])
    /\ UNCHANGED << kv, cache, tasks, started, issued, writes, faults >>

\* lines 23-35: the probe misses, INSTANCES_KV.get is awaited
GetJsonCacheMiss(r) ==
    /\ r.method = "GET" /\ r.pc = "match"
    /\ ~CacheHas(r.url)
    /\ reqs' = (reqs (-) SetToBag({r})) (+) SetToBag(
          { [r EXCEPT !.pc = "kvget", !.ops = Append(@, "cache.match")] })
    /\ UNCHANGED << kv, cache, tasks, last, started, issued, writes, faults >>

\* Mutant: no check of the instance being null
GetJsonServesNull(r) ==
    /\ r.method = "GET" /\ r.pc = "kvget"
    /\ KvGet(KvKey(r.url)) = << >>
    /\ reqs' = reqs (-) SetToBag({r})
    /\ last' = Returned([r EXCEPT !.ops = Append(@, "kv.get")],
                        InstanceResp(<< >>))
    /\ UNCHANGED << kv, cache, tasks, started, issued, writes, faults >>

\* lines 33-36: the key is not in the KV
GetJsonNotFound(r) ==
    /\ r.method = "GET" /\ r.pc = "kvget"
    /\ KvGet(KvKey(r.url)) = << >>
    /\ reqs' = reqs (-) SetToBag({r})
    /\ last' = Returned([r EXCEPT !.ops = Append(@, "kv.get")],
                        textResp("Not found", 404))
    /\ UNCHANGED << kv, cache, tasks, started, issued, writes, faults >>

\* lines 33-53: the instance is found; the response is returned and a clone
\* of it is put in the cache inside ctx.waitUntil
GetJsonFound(r) ==
    LET instance == KvGet(KvKey(r.url))
    IN /\ r.method = "GET" /\ r.pc = "kvget"
       /\ instance # << >>
       /\ tasks' = tasks (+) SetToBag(
             { [url |-> r.url, resp |-> InstanceResp(instance)] })
       /\ reqs' = reqs (-) SetToBag({r})
       /\ last' = Returned([r EXCEPT !.ops = @ \o << "kv.get", "cache.put" >>],
                           InstanceResp(instance))
       /\ UNCHANGED << kv, cache, started, issued, writes, faults >>

(***************************************************************************)
(* The cache.put of a waitUntil takes effect (lines 52 and 57)             *)
(***************************************************************************)
CachePut(t) ==
    /\ cache' = [u \in DOMAIN cache \cup {t.url} |->
                    IF u = t.url THEN t.resp ELSE cache[u]]
    /\ tasks' = tasks (-) SetToBag({t})
    /\ UNCHANGED << kv, reqs, last, started, issued, writes, faults >>

(***************************************************************************)
(* Platform calls that reject.  None of the awaits is inside a try block,  *)
(* so a rejection ends the handler and the request; the promise given to   *)
(* ctx.waitUntil is the only one whose rejection no caller sees.           *)
(***************************************************************************)
\* line 95: caches.default.match(url) rejects in putJson
PutJsonCacheMatchFails(r) ==
    /\ r.method = "POST" /\ r.pc = "match"
    /\ reqs' = reqs (-) SetToBag({r})
    /\ last' = Returned([r EXCEPT !.ops = Append(@, "cache.match rejected")],
                        UncaughtException)
    /\ faults' = faults \cup { Fault("cache.match", r.idString) }
    /\ UNCHANGED << kv, cache, tasks, started, issued, writes >>

\* Mutant: the put is inside a try block whose catch does nothing; the
\* handler goes on to warm the cache and return the identifier
PutJsonKvPutFailsSwallowed(r) ==
    /\ r.method = "POST" /\ r.pc = "kvput"
    /\ tasks' = tasks (+) SetToBag(
          { [url |-> r.url, resp |-> InstanceResp(r.serialized)] })
    /\ reqs' = reqs (-) SetToBag({r})
    /\ last' = Returned([r EXCEPT
                           !.ops = @ \o << "kv.put rejected", "cache.put" >>],
                        textResp(r.idString, 200))
    /\ issued' = issued \cup { Issue(r) }
    /\ faults' = faults \cup { Fault("kv.put", r.idString) }
    /\ UNCHANGED << kv, cache, started, writes >>

\* line 99: INSTANCES_KV.put rejects; lines 102-103 are not reached.  The
\* platform may or may not have stored the value before reporting the failure
PutJsonKvPutFails(r) ==
    /\ r.method = "POST" /\ r.pc = "kvput"
    /\ \E applied \in BOOLEAN :
          kv' = IF applied
                THEN [k \in DOMAIN kv \cup {r.idString} |->
                         IF k = r.idString THEN r.serialized ELSE kv[k]]
                ELSE kv
    /\ reqs' = reqs (-) SetToBag({r})
    /\ last' = Returned([r EXCEPT !.ops = Append(@, "kv.put rejected")],
                        UncaughtException)
    /\ faults' = faults \cup { Fault("kv.put", r.idString) }
    /\ UNCHANGED << cache, tasks, started, issued, writes >>

\* line 23: caches.default.match(url) rejects in getJson
GetJsonCacheMatchFails(r) ==
    /\ r.method = "GET" /\ r.pc = "match"
    /\ reqs' = reqs (-) SetToBag({r})
    /\ last' = Returned([r EXCEPT !.ops = Append(@, "cache.match rejected")],
                        UncaughtException)
    /\ faults' = faults \cup { Fault("cache.match", KvKey(r.url)) }
    /\ UNCHANGED << kv, cache, tasks, started, issued, writes >>

\* line 33: INSTANCES_KV.get rejects
GetJsonKvGetFails(r) ==
    /\ r.method = "GET" /\ r.pc = "kvget"
    /\ reqs' = reqs (-) SetToBag({r})
    /\ last' = Returned([r EXCEPT !.ops = Append(@, "kv.get rejected")],
                        UncaughtException)
    /\ faults' = faults \cup { Fault("kv.get", KvKey(r.url)) }
    /\ UNCHANGED << kv, cache, tasks, started, issued, writes >>

\* Mutant: the put is awaited by the handler, whose caller gets the failure
CachePutFailsPropagates(t) ==
    /\ tasks' = tasks (-) SetToBag({t})
    /\ faults' = faults \cup { Fault("cache.put", KvKey(t.url)) }
    /\ last' = IF last.pc = "done" /\ last.url = t.url
               THEN [last EXCEPT !.resp = UncaughtException]
               ELSE last
    /\ UNCHANGED << kv, cache, reqs, started, issued, writes >>

\* lines 52 and 57: the caches.default.put of a waitUntil rejects; the
\* request that started it has returned
CachePutFails(t) ==
    /\ tasks' = tasks (-) SetToBag({t})
    /\ faults' = faults \cup { Fault("cache.put", KvKey(t.url)) }
    /\ UNCHANGED << kv, cache, reqs, last, started, issued, writes >>

Next ==
    \/ \E m \in Methods, p \in Pathnames, s \in Searches :
          \/ FetchNotAllowed(m, p, s)
          \/ GetJsonStart(m, p, s)
          \/ \E b \in ClientBodies :
                \/ PutJsonReject(m, p, s, b)
                \/ PutJsonAccept(m, p, s, b)
    \/ \E r \in BagToSet(reqs) : PutJsonCacheHit(r)
    \/ \E r \in BagToSet(reqs) : PutJsonCacheMiss(r)
    \/ \E r \in BagToSet(reqs) : PutJsonKvPut(r)
    \/ \E r \in BagToSet(reqs) : GetJsonCacheHit(r)
    \/ \E r \in BagToSet(reqs) : GetJsonCacheMiss(r)
    \/ \E r \in BagToSet(reqs) : GetJsonNotFound(r)
    \/ \E r \in BagToSet(reqs) : GetJsonFound(r)
    \/ \E t \in BagToSet(tasks) : CachePut(t)

\* Clients of any method and path, their requests handled concurrently
Spec == Init /\ [][Next]_vars

\* What the runtime does without a client: a handler resumes after the call
\* it awaits, a promise given to ctx.waitUntil is run to its end
Background ==
    \/ \E r \in BagToSet(reqs) :
          \/ PutJsonCacheHit(r) \/ PutJsonCacheMiss(r) \/ PutJsonKvPut(r)
          \/ GetJsonCacheHit(r) \/ GetJsonCacheMiss(r)
          \/ GetJsonNotFound(r) \/ GetJsonFound(r)
    \/ \E t \in BagToSet(tasks) : CachePut(t)

\* Spec, where no call fails, with every awaited call and every cache put
\* completing in the end
SpecFair == Spec /\ WF_vars(Background)

\* One client posting any of the bodies to /, one request after the other
NextIngest ==
    \/ \E b \in 1..Len(Bodies) :
          /\ reqs = EmptyBag
          /\ \/ PutJsonReject("POST", Root, "", b)
             \/ PutJsonAccept("POST", Root, "", b)
    \/ \E r \in BagToSet(reqs) : PutJsonCacheHit(r)
    \/ \E r \in BagToSet(reqs) : PutJsonCacheMiss(r)
    \/ \E r \in BagToSet(reqs) : PutJsonKvPut(r)
    \/ \E t \in BagToSet(tasks) : CachePut(t)

SpecIngest == Init /\ [][NextIngest]_vars

\* The contents whose handling the platform's failures interrupt
FaultBodies == {1, 3}

\* The identifiers asked for while calls fail: theirs, and ZeroId
FaultPathnames ==
    { PathOf(Prepared[b].idString) : b \in FaultBodies } \cup { PathOf(ZeroId) }

\* Clients posting those contents and getting them back, any platform call
\* of theirs failing or not
NextFaults ==
    \/ \E s \in Searches, b \in FaultBodies : PutJsonAccept("POST", Root, s, b)
    \/ \E p \in FaultPathnames : GetJsonStart("GET", p, "")
    \/ \E r \in BagToSet(reqs) : PutJsonCacheHit(r)
    \/ \E r \in BagToSet(reqs) : PutJsonCacheMiss(r)
    \/ \E r \in BagToSet(reqs) : PutJsonKvPut(r)
    \/ \E r \in BagToSet(reqs) : GetJsonCacheHit(r)
    \/ \E r \in BagToSet(reqs) : GetJsonCacheMiss(r)
    \/ \E r \in BagToSet(reqs) : GetJsonNotFound(r)
    \/ \E r \in BagToSet(reqs) : GetJsonFound(r)
    \/ \E t \in BagToSet(tasks) : CachePut(t)
    \/ \E r \in BagToSet(reqs) : PutJsonCacheMatchFails(r)
    \/ \E r \in BagToSet(reqs) : PutJsonKvPutFails(r)
    \/ \E r \in BagToSet(reqs) : GetJsonCacheMatchFails(r)
    \/ \E r \in BagToSet(reqs) : GetJsonKvGetFails(r)
    \/ \E t \in BagToSet(tasks) : CachePutFails(t)

SpecFaults == Init /\ [][NextFaults]_vars

(***************************************************************************)
(* Properties                                                              *)
(***************************************************************************)
PostReturned == last.pc = "done" /\ last.method = "POST" /\ last.pathname = Root
GetReturned  == last.pc = "done" /\ last.method = "GET" /\ last.pathname # Root

\* C1: every response in the cache is a 200 whose URL names a key that is in
\* the KV and whose body is the value the KV holds under that key.
CacheAgreesWithStore ==
    \A u \in DOMAIN cache :
        /\ cache[u].status = 200
        /\ Substring1(u.pathname) \in DOMAIN kv
        /\ cache[u].body = kv[Substring1(u.pathname)]

\* C1 witness: an identifier is cached under two URLs, one put by a GET that
\* read the KV, while a further POST of the same content has missed the
\* cache and is about to put the instance again.
CacheAgreesWithStoreWitness ==
    \E u, v \in DOMAIN cache, r \in BagToSet(reqs) :
        /\ u # v /\ u.pathname = v.pathname
        /\ r.pc = "kvput" /\ PathOf(r.idString) = u.pathname
        /\ GetReturned /\ last.url = u /\ "kv.get" \in { last.ops[i] : i \in DOMAIN last.ops }

\* C2: a GET of an identifier that some POST had returned with status 200
\* before the GET arrived returns 200 with the serialization that POST stored.
RoundTrip ==
    (GetReturned /\ last.promised # {}) =>
        /\ last.resp.status = 200
        /\ \A text \in last.promised : last.resp.body = text

\* C2 witness: such a GET was served from the KV, the cache put of the POST
\* still pending.
RoundTripWitness ==
    /\ GetReturned /\ last.promised # {}
    /\ last.ops = << "cache.match", "kv.get", "cache.put" >>
    /\ \E t \in BagToSet(tasks) : t.url.pathname = last.pathname
    /\ cache = << >>

\* C3, as claimed: of two POSTs of the same content, the second arriving
\* after the first returned, only one puts the instance in the KV.
DedupSingleWrite ==
    (PostReturned /\ last.resp.status = 200 /\ last.prior /\ started = 2) =>
        writes[last.idString] <= 1

\* C3, amended: a POST that arrives after a POST of the same content returned
\* 200 returns 200 with the same identifier; it skips the KV put only on
\* finding its own URL in the cache, and otherwise puts the same value under
\* the same key once more.
DedupWhenCached ==
    (PostReturned /\ last.resp.status = 200 /\ last.prior) =>
        /\ \A i \in issued : i.text = last.serialized => last.resp.body = Txt(i.id)
        /\ last.idString \in DOMAIN kv /\ kv[last.idString] = last.serialized
        /\ \/ last.ops = << "cache.match" >> /\ last.url \in DOMAIN cache
           \/ last.ops = << "cache.match", "kv.put", "cache.put" >>
              /\ writes[last.idString] >= 2

\* C3 witness: the second POST found the cache warmed and put nothing.
DedupWhenCachedWitness ==
    /\ PostReturned /\ last.prior /\ last.ops = << "cache.match" >>
    /\ writes[last.idString] = 1

\* C4: POSTs of the same content all return 200 with one identifier, and the
\* KV holds that content under that identifier and no other key.
ConcurrentIdenticalIngests ==
    /\ \A i, j \in issued : i.text = j.text => i.id = j.id
    /\ \A i \in issued :
          { k \in DOMAIN kv : kv[k] = i.text } = { i.id }
    /\ (PostReturned /\ Prepared[last.body].accepted) =>
          last.resp = textResp(Prepared[last.body].idString, 200)

\* C4 witness: three POSTs of one content, one has returned its 200 and the
\* other two have both missed the cache and are both about to put.
ConcurrentIdenticalIngestsWitness ==
    \E r \in BagToSet(reqs) :
        /\ r.pc = "kvput" /\ CopiesIn(r, reqs) = 2
        /\ PostReturned /\ last.serialized = r.serialized
        /\ last.resp.status = 200

\* C5: a key that is in the KV stays in it with the value it has.
StoredObjectsImmutable ==
    [][\A k \in DOMAIN kv : k \in DOMAIN kv' /\ kv'[k] = kv[k]]_vars

\* C5 witness: a key has been put twice while another key is in the KV.
StoredObjectsImmutableWitness ==
    \E k, l \in DOMAIN kv : k # l /\ writes[k] = 2

RECURSIVE SameUpToFormatting(_, _)
\* Two JSON values that differ at most in the order of the keys of their
\* objects, at any depth
SameUpToFormatting(j1, j2) ==
    IF j1.t # j2.t THEN FALSE
    ELSE IF j1.t = "object"
         THEN /\ { m.k : m \in { j1.v[i] : i \in 1..Len(j1.v) } }
                 = { m.k : m \in { j2.v[i] : i \in 1..Len(j2.v) } }
              /\ Len(j1.v) = Len(j2.v)
              /\ \A i \in 1..Len(j1.v) :
                    SameUpToFormatting(j1.v[i].v, GetKey(j2, j1.v[i].k))
    ELSE IF j1.t = "array"
         THEN /\ Len(j1.v) = Len(j2.v)
              /\ \A i \in 1..Len(j1.v) : SameUpToFormatting(j1.v[i], j2.v[i])
    ELSE j1.v = j2.v

\* C6: two accepted bodies that differ only in whitespace and in the order of
\* object keys, at any depth, are given the same identifier.
Determinism ==
    \A i, j \in issued :
        SameUpToFormatting(Bodies[i.body].value, Bodies[j.body].value)
            => i.id = j.id

\* The serialization of a body that parses and validates
Canonical(b) == Stringify(safeParse(schema, RequestJson(Bodies[b]).value).output)
Validated(b) ==
    /\ RequestJson(Bodies[b]).ok
    /\ safeParse(schema, RequestJson(Bodies[b]).value).success

\* C7: a validated body is accepted exactly when its serialization is at most
\* 15360 bytes long, and no value in the KV is longer than 15360 bytes.
SizeBound ==
    /\ \A k \in DOMAIN kv : Utf8Length(kv[k]) <= 15360
    /\ (PostReturned /\ Validated(last.body)) =>
          /\ last.resp.status = 200 <=> Utf8Length(Canonical(last.body)) <= 15360
          /\ last.resp.status = 413 <=> Utf8Length(Canonical(last.body)) > 15360

\* C8: a body that does not parse gets 400 "Invalid JSON"; one that parses
\* and fails the schema gets 400 with the issues' messages, whatever its
\* size; 413 is given only to a body that parsed and validated, and exactly
\* when its serialization, not the body as sent, is over the limit.
RejectionPrecedence ==
    PostReturned =>
        LET j      == RequestJson(Bodies[last.body])
            parsed == safeParse(schema, j.value)
        IN /\ ~j.ok => last.resp = textResp("Invalid JSON", 400)
           /\ (j.ok /\ ~parsed.success) =>
                 last.resp = textResp(Join(parsed.issues, ", "), 400)
           /\ (j.ok /\ parsed.success) =>
                 IF Length(Canonical(last.body)) > 15 * 1024
                 THEN last.resp = textResp("Instance too large", 413)
                 ELSE last.resp.status = 200

\* C8 witness: a body that fails the schema and is over the limit got 400,
\* after a body of more than 15 KiB whose serialization is short was accepted.
RejectionPrecedenceWitness ==
    /\ PostReturned /\ last.resp.status = 400
    /\ RequestJson(Bodies[last.body]).ok
    /\ RawLength(Bodies[last.body]) > 15 * 1024
    /\ \E i \in issued : RawLength(Bodies[i.body]) > 15 * 1024

WrongMethod(x) ==
    \/ x.pathname = Root /\ x.method # "POST"
    \/ x.pathname # Root /\ x.method # "GET"

\* C9: a request to / that is not a POST returns 405 with Allow: POST, any
\* other request that is not a GET returns 405 with Allow: GET, and neither
\* probes or changes the cache or the KV, nor leaves anything to do later.
MethodGuard ==
    /\ [](\A r \in BagToSet(reqs) : ~WrongMethod(r))
    /\ [][(last' # last /\ WrongMethod(last')) =>
            /\ last'.resp.status = 405
            /\ << "Allow", IF last'.pathname = Root THEN "POST" ELSE "GET" >>
                  \in last'.resp.headers
            /\ \A h \in last'.resp.headers :
                  h[1] = "Allow" =>
                      h[2] = (IF last'.pathname = Root THEN "POST" ELSE "GET")
            /\ last'.ops = << >>
            /\ UNCHANGED << kv, cache, reqs, tasks >>]_vars

\* C9 witness: a PUT to the URL of an instance that is stored and cached
\* returned 405.
MethodGuardWitness ==
    /\ last.pc = "done" /\ last.method = "PUT" /\ last.resp.status = 405
    /\ Substring1(last.pathname) \in DOMAIN kv
    /\ last.url \in DOMAIN cache

\* C10: a GET of an identifier that is not a key of the KV returns 404
\* "Not found".
Absence ==
    (GetReturned /\ Substring1(last.pathname) \notin DOMAIN kv) =>
        last.resp = textResp("Not found", 404)

\* C10 witness: such a GET returned 404 while other instances are stored and
\* cached and a POST of the very content it names is about to be stored.
AbsenceWitness ==
    /\ GetReturned /\ Substring1(last.pathname) \notin DOMAIN kv
    /\ last.resp.status = 404
    /\ DOMAIN kv # {} /\ DOMAIN cache # {}
    /\ \E r \in BagToSet(reqs) : r.pc = "kvput" /\ PathOf(r.idString) = last.pathname

\* The GET returned after its probe of the cache was rejected
ProbeRejected(x) ==
    /\ x.pc = "done" /\ x.method = "GET"
    /\ \E i \in DOMAIN x.ops : x.ops[i] = "cache.match rejected"

\* C11: a GET whose probe of the cache fails still reads the KV by the
\* identifier and returns the stored instance with 200, or 404 if the key is
\* absent.
CacheProbeFailureFallsBack ==
    ProbeRejected(last) =>
        /\ \E i \in DOMAIN last.ops : last.ops[i] = "kv.get"
        /\ last.resp.status \in {200, 404}
        /\ last.resp.status = 200 => last.resp.body = KvGet(KvKey(last.url))

\* The request has called caches.default.put inside ctx.waitUntil
Populates(x) ==
    /\ x.pc = "done"
    /\ \E i \in DOMAIN x.ops : x.ops[i] = "cache.put"

\* C12: a request that started a cache put has returned 200, a POST with the
\* identifier and a GET with the stored instance; a step in which a cache put
\* fails changes neither that response nor the KV, the cache or any request
\* in progress.
CachePopulationFailureInvisible ==
    /\ [](Populates(last) =>
            /\ last.method = "POST" => last.resp = textResp(last.idString, 200)
            /\ last.method = "GET" =>
                  last.resp = InstanceResp(KvGet(KvKey(last.url))))
    /\ [][(\E f \in faults' \ faults : f.op = "cache.put") =>
            UNCHANGED << kv, cache, reqs, last, issued, writes >>]_vars

\* C12 witness: an instance was stored by a POST and then served by a GET
\* from the KV with 200, and both their cache puts have failed: nothing is
\* cached and nothing is pending.
CachePopulationFailureInvisibleWitness ==
    /\ GetReturned /\ last.ops = << "cache.match", "kv.get", "cache.put" >>
    /\ last.resp = InstanceResp(KvGet(KvKey(last.url)))
    /\ \E i \in issued : i.id = KvKey(last.url)
    /\ Fault("cache.put", KvKey(last.url)) \in faults
    /\ tasks = EmptyBag /\ cache = << >>

\* C13: every identifier that a POST has returned with 200 is a key of the KV
\* holding the serialization, on the path through the cache hit too: a URL
\* is only cached for a key that the KV holds, through a put that completed
\* or through one that stored the value and reported a failure, after which
\* a GET read it.
StoredBeforeIssued ==
    /\ \A i \in issued : i.id \in DOMAIN kv /\ kv[i.id] = i.text
    /\ \A u \in DOMAIN cache :
          /\ KvKey(u) \in DOMAIN kv
          /\ \/ KvKey(u) \in DOMAIN writes
             \/ Fault("kv.put", KvKey(u)) \in faults
    /\ (PostReturned /\ last.resp.status = 200) =>
          /\ last.resp.body = Txt(last.idString)
          /\ last.idString \in DOMAIN kv
          /\ kv[last.idString] = last.serialized

\* C13 witness: a POST returned 200 on a cache hit although no put of its
\* identifier ever completed: an earlier put failed after storing the value,
\* and a GET read it from the KV and cached it.
StoredBeforeIssuedWitness ==
    /\ PostReturned /\ last.resp.status = 200
    /\ last.ops = << "cache.match" >>
    /\ last.idString \notin DOMAIN writes
    /\ Fault("kv.put", last.idString) \in faults

\* C14: a GET whose probe finds its URL in the cache returns the cached
\* response as it is, having read nothing from the KV and put nothing in the
\* cache; a GET goes on to read the KV only from a probe that found nothing.
CacheHitServedVerbatim ==
    /\ [](GetReturned =>
            last.ops \in { << "cache.match" >>,
                           << "cache.match", "kv.get" >>,
                           << "cache.match", "kv.get", "cache.put" >> })
    /\ [][\A r \in BagToSet(reqs) :
            (/\ r.method = "GET" /\ r.pc = "match" /\ CacheHas(r.url)
             /\ CopiesIn(r, reqs') < CopiesIn(r, reqs)) =>
                /\ last' = Returned([r EXCEPT !.ops = << "cache.match" >>],
                                    cache[r.url])
                /\ UNCHANGED << kv, cache, tasks, writes >>]_vars
    /\ [][\A r \in BagToSet(reqs') :
            (r.pc = "kvget" /\ CopiesIn(r, reqs') > CopiesIn(r, reqs)) =>
                ~CacheHas(r.url)]_vars

\* C14 witness: a GET was served from the cache, under a URL with a query
\* string that a GET before it had cached, while the same identifier is not
\* cached under the URL without it.
CacheHitServedVerbatimWitness ==
    /\ GetReturned /\ last.ops = << "cache.match" >>
    /\ last.search # "" /\ last.resp = cache[last.url]
    /\ Url(last.pathname, "") \notin DOMAIN cache
    /\ last.resp.body = kv[KvKey(last.url)]

\* The cache put that putJson starts for request x
Warming(x) == [url |-> x.url, resp |-> InstanceResp(x.serialized)]

\* C15: a POST that missed the cache starts its cache put only once its
\* INSTANCES_KV.put has completed, and returns 200 with that cache put still
\* pending: a POST that has not yet completed its put has started no cache
\* put, every pending cache put is of a key the KV holds, and the step that
\* returns the 200 is the one that completes the put and leaves the cache
\* put pending and the cache as it was.
StoreThenCache ==
    /\ [](\A r \in BagToSet(reqs) :
            r.method = "POST" =>
                \A i \in DOMAIN r.ops : r.ops[i] # "cache.put")
    /\ [](\A t \in BagToSet(tasks) :
            KvKey(t.url) \in DOMAIN kv /\ kv[KvKey(t.url)] = t.resp.body)
    /\ [][(/\ last' # last /\ last'.method = "POST"
           /\ last'.ops = << "cache.match", "kv.put", "cache.put" >>) =>
              /\ last'.resp = textResp(last'.idString, 200)
              /\ kv'[last'.idString] = last'.serialized
              /\ CopiesIn(Warming(last'), tasks')
                    = CopiesIn(Warming(last'), tasks) + 1
              /\ cache' = cache]_vars

\* C15 witness: the POST has returned 200, its cache put is pending and its
\* URL is not in the cache.
StoreThenCacheWitness ==
    /\ PostReturned /\ last.resp.status = 200
    /\ last.ops = << "cache.match", "kv.put", "cache.put" >>
    /\ BagIn(Warming(last), tasks)
    /\ last.url \notin DOMAIN cache

\* /I, the URL a GET of identifier I is made to
RetrievalUrl(idString) == Url(PathOf(idString), "")

\* C17: the URL that putJson probes the cache by, and warms it under, is /I
\* for the identifier I of the content, whatever the URL of the POST.
CacheKeyCanonical ==
    /\ \A r \in BagToSet(reqs) :
          r.method = "POST" => r.url = RetrievalUrl(r.idString)
    /\ (PostReturned /\ last.resp.status = 200) =>
          last.url = RetrievalUrl(last.idString)
    /\ \A i \in issued, t \in BagToSet(tasks) :
          KvKey(t.url) = i.id => t.url = RetrievalUrl(i.id)

\* C16: once a POST that put its instance in the KV, or a GET that read it
\* from the KV, has returned, /I gets into the cache, and from then on a GET
\* of /I whose probe is made is served from the cache.
CachePopulationLive ==
    /\ \A id \in Identifiers :
          (Populates(last) /\ KvKey(last.url) = id)
              ~> CacheHas(RetrievalUrl(id))
    /\ [][\A r \in BagToSet(reqs) :
            (/\ r.method = "GET" /\ r.pc = "match"
             /\ r.url = RetrievalUrl(KvKey(r.url)) /\ CacheHas(r.url)
             /\ CopiesIn(r, reqs') < CopiesIn(r, reqs)) =>
                /\ last'.ops = << "cache.match" >>
                /\ last'.resp = cache[r.url]]_vars

\* The response a GET of the URL gets when it is served from the KV
ServedFromStore(url) ==
    [status  |-> 200,
     body    |-> KvGet(KvKey(url)),
     headers |-> { << "Content-Type", "application/json" >>,
                   << "Access-Control-Allow-Origin", "*" >>,
                   << "Access-Control-Allow-Methods", "GET" >>,
                   << "Access-Control-Allow-Headers", "Content-Type" >>,
                   << "Cache-Control", "public, max-age=604800" >> }]

\* C18: the response that putJson's warming puts in the cache for an
\* identifier is the response that a GET served from the KV returns and
\* caches: status 200, the stored instance, Content-Type: application/json
\* and Cache-Control: public, max-age=604800.  Every cache put that is
\* pending and every cached response is that response, and so is every 200
\* a GET returns, from the cache or from the KV.
WarmReadEquivalence ==
    /\ \A t \in BagToSet(tasks) : t.resp = ServedFromStore(t.url)
    /\ \A u \in DOMAIN cache : cache[u] = ServedFromStore(u)
    /\ (GetReturned /\ last.resp.status = 200) =>
          last.resp = ServedFromStore(last.url)

\* C18 witness: of two requests, a POST and a GET of its identifier served
\* from the KV, each has started a cache put, and the two puts are of one
\* URL and one response, the one the GET returned.
WarmReadEquivalenceWitness ==
    /\ started = 2 /\ reqs = EmptyBag
    /\ GetReturned /\ last.ops = << "cache.match", "kv.get", "cache.put" >>
    /\ \E i \in issued : i.id = KvKey(last.url)
    /\ CopiesIn([url |-> last.url, resp |-> last.resp], tasks) = 2

\* C19: a POST that is rejected with 400 or 413 has probed neither the cache
\* nor the KV, and the step that rejects it changes neither of them, starts
\* no cache put and leaves no request in progress; only accepted bodies are
\* ever past the checks.
RejectionLeavesNoTrace ==
    /\ [](\A r \in BagToSet(reqs) :
            r.method = "POST" => Prepared[r.body].accepted)
    /\ [](PostReturned =>
            (last.resp.status \in {400, 413} <=> ~Prepared[last.body].accepted))
    /\ [][(/\ last' # last /\ last'.pc = "done"
           /\ last'.method = "POST" /\ last'.pathname = Root
           /\ last'.resp.status \in {400, 413}) =>
              /\ last'.ops = << >>
              /\ UNCHANGED << kv, cache, reqs, tasks, issued, writes >>]_vars

\* C19 witness: a body over the limit was rejected with 413 while instances
\* are stored, one is cached and a cache put is pending.
RejectionLeavesNoTraceWitness ==
    /\ PostReturned /\ last.resp = textResp("Instance too large", 413)
    /\ last.ops = << >>
    /\ DOMAIN kv # {} /\ DOMAIN cache # {} /\ tasks # EmptyBag
    /\ \A k \in DOMAIN kv : Length(kv[k]) <= MaxSerializedLength

\* C20: a POST whose INSTANCES_KV.put fails returns neither 200 nor the
\* identifier, has called put once and started no cache put, and the step
\* in which it fails leaves the cache, the pending cache puts and the
\* identifiers returned as they were; a POST of the same content that
\* arrives afterwards and returns 200 returns the same identifier, with the
\* instance in the KV under it.
PutFailureIsTerminal ==
    /\ [][(/\ last' # last /\ last'.pc = "done" /\ last'.method = "POST"
           /\ \E i \in DOMAIN last'.ops : last'.ops[i] = "kv.put rejected") =>
              /\ last'.resp.status # 200
              /\ last'.resp.body # Txt(last'.idString)
              /\ last'.ops = << "cache.match", "kv.put rejected" >>
              /\ UNCHANGED << cache, tasks, issued, writes >>]_vars
    /\ []((PostReturned /\ last.retry /\ last.resp.status = 200) =>
            /\ last.resp = textResp(Prepared[last.body].idString, 200)
            /\ last.idString \in DOMAIN kv
            /\ kv[last.idString] = Prepared[last.body].serialized)

\* C20 witness: the put of a first POST failed and nothing was cached; the same
\* content, posted again afterwards, missed the cache, was put and got 200.
PutFailureIsTerminalWitness ==
    /\ PostReturned /\ last.retry /\ last.resp.status = 200
    /\ last.ops = << "cache.match", "kv.put", "cache.put" >>
    /\ started = 2 /\ writes[last.idString] = 1
    /\ cache = << >>

====
